---- MODULE Spec2Model ----
(***************************************************************************)
(* Model of the session-aware API client of the admin console              *)
(* (src/src/services/api.ts): the module-level token, persistToken,        *)
(* request and the authApi wrappers login / me / logout, together with one *)
(* authenticated and one unauthenticated resource operation.               *)
(*                                                                         *)
(* JavaScript runs the client on one thread: code between two awaits is    *)
(* one atomic step.  Every call therefore moves through the positions      *)
(*   idle -> fetch -> body -> settled -> done                              *)
(* where "fetch" waits for fetch(), "body" waits for response.json() or    *)
(* response.text(), "settled" is request's promise settled with the        *)
(* wrapper's continuation still queued, and "done" is the wrapper's        *)
(* promise settled with the outcome its caller sees.                       *)
(***************************************************************************)
EXTENDS Integers, Sequences, FiniteSets, TLC

VARIABLES
    accessToken,   \* api.ts:12 the module-level token (a JavaScript value)
    storage,       \* window.localStorage[TOKEN_STORAGE_KEY]: Null when absent
    calls,         \* the asynchronous calls in progress, one record per caller
    started,       \* how many calls the callers have started so far
    ui,            \* App.tsx:140-155 the state of the App component
    tasks,         \* the invocations of App's handlers, one record each
    net            \* the requests of App's handlers that wait for the server

vars == <<accessToken, storage, calls, started, ui, tasks, net>>

\* What the client's own steps leave alone.
app == <<ui, tasks, net>>

\* Number of calls the callers start in one behaviour.
MaxCalls == 3

\* Two callers, so that any two calls may overlap.
Slots == {1, 2}

-----------------------------------------------------------------------------
(* JavaScript values, tagged by kind.                                      *)

Null == [k |-> "null"]
Undef == [k |-> "undefined"]
Str(s) == [k |-> "string", v |-> s]
Obj(fields) == [k |-> "object", f |-> fields]
Num(n) == [k |-> "number", n |-> n]
\* {}
EmptyObject == Obj(<<>>)
\* A FormData instance (api.ts:53-54)
FormData == [k |-> "FormData"]

\* JavaScript truthiness of the values a token can be (!accessToken, if (token)).
Truthy(v) == ~(v.k \in {"null", "undefined"} \/ v = Str(""))

\* api.ts:56-57
isRecord(value) == value.k = "object"

\* 'name' in value, for a record
HasField(value, name) == isRecord(value) /\ name \in DOMAIN value.f

\* value.name for a value that is neither null nor undefined: a missing
\* property, and any property of a primitive string, reads as undefined.
Get(value, name) == IF HasField(value, name) THEN value.f[name] ELSE Undef

\* value.name throws a TypeError on null and undefined.
Nullish(value) == value.k \in {"null", "undefined"}

\* String(value), as localStorage.setItem and a template literal convert it.
ToStr(value) ==
    CASE value.k = "string" -> value.v
      [] value.k = "null" -> "null"
      [] value.k = "undefined" -> "undefined"
      [] value.k = "number" -> ToString(value.n)
      [] OTHER -> "[object Object]"

-----------------------------------------------------------------------------
(* The server's side: statuses and bodies the client may be answered with. *)

TokenA == "abc"
TokenB == "t0"

User == Obj([id |-> Str("u1")])

\* A response body: its raw text, whether the content-type header names
\* application/json, and the value response.json() parses it to.
Body(raw, json, parsed) == [raw |-> raw, json |-> json, parsed |-> parsed]

LoginEnvelope == Body("{data:{token,user}}", TRUE,
                      Obj([data |-> Obj([token |-> Str(TokenA), user |-> User])]))
UserEnvelope == Body("{data:{user}}", TRUE, Obj([data |-> Obj([user |-> User])]))
ErrorEnvelope == Body("{error:{message}}", TRUE,
                      Obj([error |-> Obj([message |-> Str("bad input")])]))
PlainText == Body("oops", FALSE, Undef)

Bodies == {LoginEnvelope, UserEnvelope, ErrorEnvelope, PlainText}

Statuses == {200, 204, 401, 403, 500}

\* The further shapes of payload request tells apart (api.ts:105-111, 121).
BothMessages == Body("{error:{message},message}", TRUE,
                     Obj([error |-> Obj([message |-> Str("inner")]),
                          message |-> Str("outer")]))
TopMessage == Body("{message}", TRUE, Obj([message |-> Str("outer")]))
ErrorString == Body("{error:string,message}", TRUE,
                    Obj([error |-> Str("failed"), message |-> Str("outer")]))
ErrorCode == Body("{error:{message:1},message}", TRUE,
                  Obj([error |-> Obj([message |-> Num(1)]),
                       message |-> Str("outer")]))
NoMessage == Body("{error:{code}}", TRUE, Obj([error |-> Obj([code |-> Num(7)])]))
NumberMessage == Body("{message:5}", TRUE, Obj([message |-> Num(5)]))
JsonNull == Body("null", TRUE, Null)
DataNull == Body("{data:null}", TRUE, Obj([data |-> Null]))
EmptyArray == Body("[]", TRUE, Obj([length |-> Num(0)]))

WireBodies == Bodies \cup {BothMessages, TopMessage, ErrorString, ErrorCode,
                           NoMessage, NumberMessage, JsonNull, DataNull,
                           EmptyArray}

WireStatuses == Statuses \cup {201, 400}

\* response.ok
Ok(status) == status >= 200 /\ status <= 299

-----------------------------------------------------------------------------
(* Outcomes of a promise.                                                  *)

NoOut == [kind |-> "none"]
Resolved(value) == [kind |-> "ok", value |-> value]
\* An ApiError that drops the payload (api.ts:40 left out).
ApiErrorWithoutDetails(message, status, details) ==
    [kind |-> "ApiError", message |-> message, status |-> status, details |-> Undef]

\* api.ts:32-42
ApiError(message, status, details) ==
    [kind |-> "ApiError", message |-> message, status |-> status, details |-> details]
\* An exception that is not an ApiError: fetch's rejection ("NetworkError"),
\* a body that fails to parse ("SyntaxError"), a property read on null
\* ("TypeError").
Thrown(name) == [kind |-> name]

\* The client-side failure of request's precondition (api.ts:62-64).
NotAuthenticated == ApiError("Not authenticated", 401, Undef)

IsApiError(out, status) == out.kind = "ApiError" /\ out.status = status

-----------------------------------------------------------------------------
(* The operations: method, path, body and authenticated flag.              *)

Ops == {"login", "me", "logout", "getCommodities", "createCommodity",
        "getCategories"}

\* Calls of request itself with the remaining kinds of body: a string, a
\* FormData and null (api.ts:69-79).
RequestOps == {"requestText", "requestForm", "requestNull"}

\* api.ts:287-352 adminApi, called as App.tsx calls it: one commodity id,
\* getPriceUpdateRuns(10).
AdminOps == {"getCommodities", "createCommodity", "updateCommodity",
             "deleteCommodity", "updatePriceRange", "updateCommodityPrice",
             "triggerPriceUpdate", "getDashboardSummary", "getPriceUpdateRuns"}

\* api.ts:354-385 publicApi and currencyApi: getCurrentPrices('both'),
\* getRates('USD', ['ZAR']) and getRates('USD', []).
PublicOps == {"getCategories", "getCurrentPrices", "getRates",
              "getRatesNoSymbols"}

\* Every operation the module exports.
SurfaceOps == {"login", "me", "logout"} \cup AdminOps \cup PublicOps

\* Every operation passing authenticated: false but login (api.ts:357,
\* 364, 380 left out).
AuthenticatedButLogin(op) == op # "login"

\* api.ts:60 authenticated defaults to true; api.ts:245, 357, 364, 380
\* pass false.
Authenticated(op) ==
    op \notin {"login", "getCategories", "getCurrentPrices", "getRates",
               "getRatesNoSymbols"}

\* api.ts:65 method defaults to GET
Method(op) ==
    CASE op \in {"login", "logout", "createCommodity", "triggerPriceUpdate"}
                \cup RequestOps -> "POST"
      [] op \in {"updateCommodity", "updatePriceRange", "updateCommodityPrice"} -> "PUT"
      [] op = "deleteCommodity" -> "DELETE"
      [] OTHER -> "GET"

\* The commodity the operations with an id are called for.
CommodityId == "c1"

Path(op) ==
    CASE op = "login" -> "/auth/login"
      [] op = "me" -> "/auth/me"
      [] op = "logout" -> "/auth/logout"
      [] op = "getCommodities" -> "/admin/commodities"
      [] op = "createCommodity" -> "/admin/commodities"
      [] op = "updateCommodity" -> "/admin/commodities/" \o CommodityId
      [] op = "deleteCommodity" -> "/admin/commodities/" \o CommodityId
      [] op = "updatePriceRange" ->
            "/admin/commodities/" \o CommodityId \o "/price-range"
      [] op = "updateCommodityPrice" ->
            "/admin/commodities/" \o CommodityId \o "/price"
      [] op = "triggerPriceUpdate" -> "/admin/prices/update-all"
      [] op = "getDashboardSummary" -> "/admin/dashboard/summary"
      [] op = "getPriceUpdateRuns" ->
            "/admin/price-update-runs?limit=" \o ToString(10)
      [] op = "getCategories" -> "/commodities/categories"
      [] op = "getCurrentPrices" -> "/prices/current?currency=" \o "both"
      [] op \in {"getRates", "getRatesNoSymbols"} ->
            "/currency/rates?base=" \o "USD" \o "&symbols=" \o "ZAR"
      [] OTHER -> "/resource"

\* The body option: login and the operations that create or update pass an
\* object, the others none.
BodyValue(op) ==
    CASE op = "login" -> Obj([username |-> Str("admin"), password |-> Str("pw")])
      [] op = "createCommodity" -> Obj([name |-> Str("Gold")])
      [] op = "updateCommodity" -> Obj([name |-> Str("Gold")])
      [] op = "updatePriceRange" ->
            Obj([min_price_usd |-> Num(1), max_price_usd |-> Num(2)])
      [] op = "updateCommodityPrice" -> Obj([price_usd |-> Num(1)])
      [] op = "requestText" -> Str("{name:Gold}")
      [] op = "requestForm" -> FormData
      [] op = "requestNull" -> Null
      [] OTHER -> Undef

\* api.ts:69-75 the tests request makes on the body, in their order.
BodyKind(op) ==
    LET body == BodyValue(op) IN
    CASE body.k \in {"undefined", "null"} -> body.k
      [] body.k = "FormData" -> "FormData"
      [] body.k = "string" -> "string"
      [] OTHER -> "object"

\* What is handed to fetch as body: nothing, the FormData itself, the
\* string as it is, or the text JSON.stringify makes of the value.
NoBody == [enc |-> "none"]
Passed(form) == [enc |-> "FormData", form |-> form]
Verbatim(text) == [enc |-> "raw", text |-> text]
Serialized(value) == [enc |-> "JSON.stringify", value |-> value]

\* Every body that is not a FormData serialized, a string too (api.ts:72-74
\* left out).
FetchBodySerializesStrings(op) ==
    CASE BodyKind(op) \in {"undefined", "null"} -> NoBody
      [] BodyKind(op) = "FormData" -> Passed(BodyValue(op))
      [] OTHER -> Serialized(BodyValue(op))

\* api.ts:67-79 fetchBody
FetchBody(op) ==
    CASE BodyKind(op) \in {"undefined", "null"} -> NoBody
      [] BodyKind(op) = "FormData" -> Passed(BodyValue(op))
      [] BodyKind(op) = "string" -> Verbatim(BodyValue(op).v)
      [] OTHER -> Serialized(BodyValue(op))

\* No call of fetch (yet).
NoReq == [sent |-> FALSE, method |-> "", path |-> "", accept |-> "",
          contentType |-> "none", authorization |-> "none", body |-> NoBody]

\* fetch called without the Authorization header (api.ts:81-83 left out).
FetchCallNoAuthorization(op, token) ==
    [sent |-> TRUE,
     method |-> Method(op),
     path |-> Path(op),
     accept |-> "application/json",
     contentType |->
        IF BodyKind(op) \in {"undefined", "null", "FormData"}
        THEN "none" ELSE "application/json",
     body |-> FetchBody(op),
     authorization |-> "none"]

\* The Authorization header attached whenever a token is held (api.ts:81
\* without its test of authenticated).
FetchCallAlwaysAuthorization(op, token) ==
    [sent |-> TRUE,
     method |-> Method(op),
     path |-> Path(op),
     accept |-> "application/json",
     contentType |->
        IF BodyKind(op) \in {"undefined", "null", "FormData"}
        THEN "none" ELSE "application/json",
     body |-> FetchBody(op),
     authorization |->
        IF Truthy(token) THEN "Bearer " \o ToStr(token) ELSE "none"]

\* api.ts:66-89 the call of fetch: headers and body as request builds them.
FetchCall(op, token) ==
    [sent |-> TRUE,
     method |-> Method(op),
     path |-> Path(op),
     accept |-> "application/json",
     contentType |->
        IF BodyKind(op) \in {"undefined", "null", "FormData"}
        THEN "none" ELSE "application/json",
     body |-> FetchBody(op),
     authorization |->
        IF Authenticated(op) /\ Truthy(token)
        THEN "Bearer " \o ToStr(token) ELSE "none"]

\* fetches counts the calls of fetch the invocation has made.
Idle == [op |-> "none", pc |-> "idle", req |-> NoReq, fetches |-> 0,
         status |-> 0, bodyRead |-> FALSE, payload |-> Null, out |-> NoOut]

-----------------------------------------------------------------------------
(* persistToken, api.ts:18-30, in a browser (window is defined).           *)

\* persistToken that never removes the stored entry (api.ts:27-29 left out).
StoredAfterNeverRemoves(token) ==
    IF Truthy(token) THEN Str(ToStr(token)) ELSE storage

StoredAfter(token) == IF Truthy(token) THEN Str(ToStr(token)) ELSE Null

persistToken(token) ==
    /\ accessToken' = token
    /\ storage' = StoredAfter(token)

-----------------------------------------------------------------------------
(* request, api.ts:59-126.                                                 *)

\* payload.message preferred to payload.error.message (api.ts:107-111 in
\* the other order).
ErrorMessageTopFirst(status, payload) ==
    IF isRecord(payload)
    THEN LET errorPayload == Get(payload, "error") IN
         IF Get(payload, "message").k = "string"
         THEN Get(payload, "message").v
         ELSE IF isRecord(errorPayload) /\ Get(errorPayload, "message").k = "string"
              THEN Get(errorPayload, "message").v
              ELSE "Request failed with status " \o ToString(status)
    ELSE "Request failed with status " \o ToString(status)

\* api.ts:103-112
ErrorMessage(status, payload) ==
    IF isRecord(payload)
    THEN LET errorPayload == Get(payload, "error") IN
         IF isRecord(errorPayload) /\ Get(errorPayload, "message").k = "string"
         THEN Get(errorPayload, "message").v
         ELSE IF Get(payload, "message").k = "string"
              THEN Get(payload, "message").v
              ELSE "Request failed with status " \o ToString(status)
    ELSE "Request failed with status " \o ToString(status)

\* The payload returned whole (api.ts:121-123 left out).
UnwrapNever(payload) == payload

\* data returned only when it is truthy (payload.data || payload in place of
\* api.ts:121-123).
UnwrapTruthyData(payload) ==
    IF isRecord(payload) /\ HasField(payload, "data") /\ Truthy(payload.f["data"])
    THEN payload.f["data"] ELSE payload

\* api.ts:121-125
Unwrap(payload) ==
    IF isRecord(payload) /\ HasField(payload, "data")
    THEN payload.f["data"] ELSE payload

\* The token cleared on 401 alone (api.ts:114 without its 403 half).
RejectsOnly401(status) == status = 401

\* The token cleared on every failing status (api.ts:114 without its test).
RejectsAnyFailure(status) == status >= 400

\* api.ts:114 the statuses that clear the token
Rejects(status) == status = 401 \/ status = 403

\* api.ts:102-125: what request's promise settles with for a read response.
Outcome(status, payload) ==
    IF ~Ok(status)
    THEN ApiError(ErrorMessage(status, payload), status, payload)
    ELSE Resolved(Unwrap(payload))

\* request testing the token again when the response arrives, and failing an
\* authenticated call whose token was cleared while it was in flight.
SettleRechecksToken(c, status, payload, read) ==
    /\ IF ~Ok(status) /\ Rejects(status)
       THEN persistToken(Null)
       ELSE UNCHANGED <<accessToken, storage>>
    /\ calls' = [calls EXCEPT ![c] =
            [@ EXCEPT !.pc = "settled", !.status = status, !.bodyRead = read,
                      !.payload = payload,
                      !.out = IF Authenticated(calls[c].op) /\ ~Truthy(accessToken)
                              THEN ApiError("Not authenticated", 401, Undef)
                              ELSE Outcome(status, payload)]]

\* request clearing the token on 401/403 only when it is still the token the
\* request was sent with (a comparison added to api.ts:114).
SettleClearsOwnToken(c, status, payload, read) ==
    /\ IF /\ ~Ok(status) /\ Rejects(status)
          /\ Truthy(accessToken)
          /\ calls[c].req.authorization = "Bearer " \o ToStr(accessToken)
       THEN persistToken(Null)
       ELSE UNCHANGED <<accessToken, storage>>
    /\ calls' = [calls EXCEPT ![c] =
            [@ EXCEPT !.pc = "settled", !.status = status, !.bodyRead = read,
                      !.payload = payload, !.out = Outcome(status, payload)]]

\* api.ts:102-126 from the parsed payload to the settled promise.
Settle(c, status, payload, read) ==
    /\ IF ~Ok(status) /\ Rejects(status)
       THEN persistToken(Null)
       ELSE UNCHANGED <<accessToken, storage>>
    /\ calls' = [calls EXCEPT ![c] =
            [@ EXCEPT !.pc = "settled", !.status = status, !.bodyRead = read,
                      !.payload = payload, !.out = Outcome(status, payload)]]

\* request without its no-token precondition (api.ts:62-64 left out).
RequestBeginUnchecked(c, op) ==
    calls' = [calls EXCEPT ![c] =
        [Idle EXCEPT !.op = op, !.pc = "fetch", !.fetches = 1,
                     !.req = FetchCall(op, accessToken)]]

\* api.ts:59-89 the synchronous part of request, up to the call of fetch.
RequestBegin(c, op) ==
    IF Authenticated(op) /\ ~Truthy(accessToken)
    THEN calls' = [calls EXCEPT ![c] =
            [Idle EXCEPT !.op = op, !.pc = "settled",
                         !.out = ApiError("Not authenticated", 401, Undef)]]
    ELSE calls' = [calls EXCEPT ![c] =
            [Idle EXCEPT !.op = op, !.pc = "fetch", !.fetches = 1,
                         !.req = FetchCall(op, accessToken)]]

\* me returning undefined instead of null without a token (api.ts:254 as a
\* bare return).
StartEarlyUndefined(c, op) ==
    /\ calls[c].pc = "idle"
    /\ started < MaxCalls
    /\ started' = started + 1
    /\ UNCHANGED app
    /\ IF op \in {"me", "logout"} /\ ~Truthy(accessToken)
       THEN calls' = [calls EXCEPT ![c] =
               [Idle EXCEPT !.op = op, !.pc = "done", !.out = Resolved(Undef)]]
       ELSE IF op = "getRatesNoSymbols"
       THEN calls' = [calls EXCEPT ![c] =
               [Idle EXCEPT !.op = op, !.pc = "done", !.out = Resolved(EmptyObject)]]
       ELSE RequestBegin(c, op)
    /\ UNCHANGED <<accessToken, storage>>

\* A caller invokes an operation: the wrapper's code up to its first await.
\* api.ts:253-255 me and api.ts:269-271 logout return at once without a
\* token, api.ts:371-373 getRates returns {} at once without symbols.
Start(c, op) ==
    /\ calls[c].pc = "idle"
    /\ started < MaxCalls
    /\ started' = started + 1
    /\ UNCHANGED app
    /\ IF op \in {"me", "logout"} /\ ~Truthy(accessToken)
       THEN calls' = [calls EXCEPT ![c] =
               [Idle EXCEPT !.op = op, !.pc = "done",
                            !.out = Resolved(IF op = "me" THEN Null ELSE Undef)]]
       ELSE IF op = "getRatesNoSymbols"
       THEN calls' = [calls EXCEPT ![c] =
               [Idle EXCEPT !.op = op, !.pc = "done", !.out = Resolved(EmptyObject)]]
       ELSE RequestBegin(c, op)
    /\ UNCHANGED <<accessToken, storage>>

\* The body read whatever the status (api.ts:93 left out).
FetchResolvesReadsAlways(c, status) ==
    /\ calls[c].pc = "fetch"
    /\ UNCHANGED <<started, app>>
    /\ calls' = [calls EXCEPT ![c] = [@ EXCEPT !.pc = "body", !.status = status]]
    /\ UNCHANGED <<accessToken, storage>>

\* api.ts:85-93 fetch resolves; a 204 reads no body and settles at once.
FetchResolves(c, status) ==
    /\ calls[c].pc = "fetch"
    /\ UNCHANGED <<started, app>>
    /\ IF status = 204
       THEN Settle(c, status, Null, FALSE)
       ELSE /\ calls' = [calls EXCEPT ![c] = [@ EXCEPT !.pc = "body", !.status = status]]
            /\ UNCHANGED <<accessToken, storage>>

\* request calling fetch once more after a rejection (a retry around
\* api.ts:85) before it gives up.
FetchRejectsRetries(c) ==
    /\ calls[c].pc = "fetch"
    /\ UNCHANGED <<started, app>>
    /\ IF calls[c].fetches < 2
       THEN calls' = [calls EXCEPT ![c] = [@ EXCEPT !.fetches = @ + 1]]
       ELSE calls' = [calls EXCEPT ![c] =
               [@ EXCEPT !.pc = "settled", !.out = Thrown("NetworkError")]]
    /\ UNCHANGED <<accessToken, storage>>

\* request wrapping fetch's rejection in an ApiError (a catch around
\* api.ts:85).
FetchRejectsAsApiError(c) ==
    /\ calls[c].pc = "fetch"
    /\ UNCHANGED <<started, app>>
    /\ calls' = [calls EXCEPT ![c] =
            [@ EXCEPT !.pc = "settled",
                      !.out = ApiError("Network request failed", 0, Undef)]]
    /\ UNCHANGED <<accessToken, storage>>

\* api.ts:85 fetch rejects: the exception leaves request unchanged.
FetchRejects(c) ==
    /\ calls[c].pc = "fetch"
    /\ UNCHANGED <<started, app>>
    /\ calls' = [calls EXCEPT ![c] =
            [@ EXCEPT !.pc = "settled", !.out = Thrown("NetworkError")]]
    /\ UNCHANGED <<accessToken, storage>>

\* api.ts:94-99 the body is read as JSON or as text, by content-type.
BodyResolves(c, body) ==
    /\ calls[c].pc = "body"
    /\ UNCHANGED <<started, app>>
    /\ Settle(c, calls[c].status,
              IF body.json THEN body.parsed ELSE Str(body.raw), TRUE)

\* api.ts:96 response.json() throws on a malformed body.
BodyRejects(c) ==
    /\ calls[c].pc = "body"
    /\ UNCHANGED <<started, app>>
    /\ calls' = [calls EXCEPT ![c] =
            [@ EXCEPT !.pc = "settled", !.bodyRead = TRUE,
                      !.out = Thrown("SyntaxError")]]
    /\ UNCHANGED <<accessToken, storage>>

-----------------------------------------------------------------------------
(* The wrappers' continuations after await request(...).                   *)

\* api.ts:248-249
LoginContinue(c) ==
    LET out == calls[c].out IN
    IF out.kind = "ok"
    THEN IF Nullish(out.value)
         THEN /\ calls' = [calls EXCEPT ![c] =
                     [@ EXCEPT !.pc = "done", !.out = Thrown("TypeError")]]
              /\ UNCHANGED <<accessToken, storage>>
         ELSE /\ persistToken(Get(out.value, "token"))
              /\ calls' = [calls EXCEPT ![c] = [@ EXCEPT !.pc = "done"]]
    ELSE /\ calls' = [calls EXCEPT ![c] = [@ EXCEPT !.pc = "done"]]
         /\ UNCHANGED <<accessToken, storage>>

\* me swallowing 403 as well as 401 (api.ts:261 testing both statuses).
MeOutcomeSwallowsRejects(out) ==
    IF out.kind = "ok"
    THEN IF Nullish(out.value) THEN Thrown("TypeError")
         ELSE Resolved(Get(out.value, "user"))
    ELSE IF IsApiError(out, 401) \/ IsApiError(out, 403)
         THEN Resolved(Null) ELSE out

\* api.ts:259-265
MeOutcome(out) ==
    IF out.kind = "ok"
    THEN IF Nullish(out.value) THEN Thrown("TypeError")
         ELSE Resolved(Get(out.value, "user"))
    ELSE IF IsApiError(out, 401) THEN Resolved(Null) ELSE out

MeContinue(c) ==
    /\ calls' = [calls EXCEPT ![c] =
            [@ EXCEPT !.pc = "done", !.out = MeOutcome(calls[c].out)]]
    /\ UNCHANGED <<accessToken, storage>>

\* logout swallowing 403 as well as 401 (api.ts:278 testing both statuses).
LogoutOutcomeSwallowsRejects(out) ==
    IF out.kind = "ok" \/ IsApiError(out, 401) \/ IsApiError(out, 403)
    THEN Resolved(Undef) ELSE out

\* api.ts:277-280
LogoutOutcome(out) ==
    IF out.kind = "ok" \/ IsApiError(out, 401) THEN Resolved(Undef) ELSE out

\* logout clearing the token after the try block instead of in finally
\* (api.ts:281-283): a rethrown error skips the clearing.
LogoutContinueNoFinally(c) ==
    /\ IF LogoutOutcome(calls[c].out).kind = "ok"
       THEN persistToken(Null)
       ELSE UNCHANGED <<accessToken, storage>>
    /\ calls' = [calls EXCEPT ![c] =
            [@ EXCEPT !.pc = "done", !.out = LogoutOutcome(calls[c].out)]]

\* api.ts:273-283 catch, then finally
LogoutContinue(c) ==
    /\ persistToken(Null)
    /\ calls' = [calls EXCEPT ![c] =
            [@ EXCEPT !.pc = "done", !.out = LogoutOutcome(calls[c].out)]]

\* api.ts:288-304, 355-359: return request(...) hands the outcome on.
PassContinue(c) ==
    /\ calls' = [calls EXCEPT ![c] = [@ EXCEPT !.pc = "done"]]
    /\ UNCHANGED <<accessToken, storage>>

\* api.ts:306-336 await request(...) in a function of result type void: the
\* value is dropped.
VoidOutcome(out) == IF out.kind = "ok" THEN Resolved(Undef) ELSE out

\* api.ts:378-383 return response.rates ?? {}
RatesOutcome(out) ==
    IF out.kind = "ok"
    THEN IF Nullish(out.value) THEN Thrown("TypeError")
         ELSE IF Nullish(Get(out.value, "rates")) THEN Resolved(EmptyObject)
         ELSE Resolved(Get(out.value, "rates"))
    ELSE out

VoidOps == {"updateCommodity", "deleteCommodity", "updatePriceRange",
            "updateCommodityPrice"}

MapContinue(c) ==
    /\ calls' = [calls EXCEPT ![c] =
            [@ EXCEPT !.pc = "done",
                      !.out = IF calls[c].op \in VoidOps
                              THEN VoidOutcome(calls[c].out)
                              ELSE RatesOutcome(calls[c].out)]]
    /\ UNCHANGED <<accessToken, storage>>

Continue(c) ==
    /\ calls[c].pc = "settled"
    /\ UNCHANGED <<started, app>>
    /\ CASE calls[c].op = "login" -> LoginContinue(c)
         [] calls[c].op = "me" -> MeContinue(c)
         [] calls[c].op = "logout" -> LogoutContinue(c)
         [] calls[c].op \in VoidOps \cup {"getRates"} -> MapContinue(c)
         [] OTHER -> PassContinue(c)

\* The caller has taken the outcome; the slot is free for its next call.
Return(c) ==
    /\ calls[c].pc = "done"
    /\ UNCHANGED <<started, app>>
    /\ calls' = [calls EXCEPT ![c] = Idle]
    /\ UNCHANGED <<accessToken, storage>>

-----------------------------------------------------------------------------
(* The App component, src/src/App.tsx: its state and what its handlers     *)
(* await.  A handler runs from one await to the next in one step; a call   *)
(* that fails before it reaches the network rejects in the same step,      *)
(* since its catch and finally run before any response can arrive.         *)

\* Handler invocations one behaviour starts.
MaxHandlers == 2

Tasks == 1..MaxHandlers

\* The commodities on screen, and no commodity (an action without id).
Ids == {"c1"}
NoId == "none"

\* No data ([], {} or null), and the data the server answers a call of
\* invocation t with: named after the invocation, so that what is on screen
\* tells which invocation fetched it.
Empty == "empty"
Data(t) == "data of " \o ToString(t)

\* App.tsx:43-46 PendingAction, App.tsx:148 its initial value
NoAction == [type |-> "null", id |-> NoId]
PendingAction(type, id) == [type |-> type, id |-> id]

\* App.tsx:149 feedback
NoFeedback == [type |-> "none", message |-> ""]
Feedback(type, message) == [type |-> type, message |-> message]

\* App.tsx:139-153 the initial state of the component
InitialUi ==
    [status |-> "checking", user |-> Null, commodities |-> Empty,
     drafts |-> Empty, summary |-> Empty, priceRuns |-> Empty,
     loading |-> FALSE, pendingAction |-> NoAction, feedback |-> NoFeedback]

\* App.tsx:200-224 the five calls of hydrate, and the three whose data the
\* component keeps.
HydrateOps == {"getCommodities", "getDashboardSummary", "getPriceUpdateRuns",
               "getCurrentPrices", "getRates"}
DataOps == {"getCommodities", "getDashboardSummary", "getPriceUpdateRuns"}

\* The handlers that write to the server before they call hydrate.
WriteHandlers == {"handleSaveRange", "handleSavePrice", "handleRandomizeAll",
                  "handleSaveCommodityDetails", "handleDeleteCommodity",
                  "handleCreateCommodity"}

\* The adminApi operation each of them awaits.
WriteOp(kind) ==
    CASE kind = "handleSaveRange" -> "updatePriceRange"
      [] kind = "handleSavePrice" -> "updateCommodityPrice"
      [] kind = "handleRandomizeAll" -> "triggerPriceUpdate"
      [] kind = "handleSaveCommodityDetails" -> "updateCommodity"
      [] kind = "handleDeleteCommodity" -> "deleteCommodity"
      [] kind = "handleCreateCommodity" -> "createCommodity"

\* The type each of them gives setPendingAction.
PendingType(kind) ==
    CASE kind = "handleSaveRange" -> "range"
      [] kind = "handleSavePrice" -> "price"
      [] kind = "handleRandomizeAll" -> "randomize"
      [] kind = "handleSaveCommodityDetails" -> "manage_save"
      [] kind = "handleDeleteCommodity" -> "manage_delete"
      [] kind = "handleCreateCommodity" -> "manage_create"

\* The ids a handler may be invoked with.
IdsOf(kind) ==
    IF kind \in {"handleRandomizeAll", "handleCreateCommodity"}
    THEN {NoId} ELSE Ids

\* Number(text) for the texts a draft field is given: a number, NaN or
\* Infinity.
NaN == [k |-> "NaN"]
Infinity == [k |-> "Infinity"]
DraftTexts == {"", "abc", "Infinity", "-1", "0", "1", "2"}

Number(text) ==
    CASE text = "" -> Num(0)
      [] text = "-1" -> Num(-1)
      [] text = "0" -> Num(0)
      [] text = "1" -> Num(1)
      [] text = "2" -> Num(2)
      [] text = "Infinity" -> Infinity
      [] OTHER -> NaN

\* Number.isFinite
isFinite(value) == value.k = "number"

\* text.trim() for the texts a field of the manage form is given.
FormTexts == {"", " ", "Gold"}
trim(text) == IF text = " " THEN "" ELSE text

\* What a handler finds when it is invoked: drafts[id] or manageDrafts[id]
\* (undefined when there is none), the form of the new commodity, the
\* answer to window.confirm.
Inputs(kind) ==
    CASE kind = "handleSaveRange" ->
            {Undef} \cup {[min |-> a, max |-> b] : a, b \in DraftTexts}
      [] kind = "handleSavePrice" ->
            {Undef} \cup {[price |-> p] : p \in DraftTexts}
      [] kind = "handleSaveCommodityDetails" ->
            {Undef} \cup {[name |-> a, symbol |-> b, category_id |-> c] :
                             a, b, c \in FormTexts}
      [] kind = "handleCreateCommodity" ->
            {[name |-> a, symbol |-> b, category_id |-> c] : a, b, c \in FormTexts}
      [] kind = "handleDeleteCommodity" -> {[confirm |-> TRUE], [confirm |-> FALSE]}
      [] OTHER -> {[none |-> TRUE]}

\* handleSaveRange letting min equal max through (App.tsx:481 testing
\* min > max).
RangeVerdictAllowsEqual(draft) ==
    IF draft = Undef THEN "return"
    ELSE LET min == Number(draft.min)
             max == Number(draft.max)
         IN  IF ~isFinite(min) \/ ~isFinite(max) THEN "Enter valid minimum and maximum values."
             ELSE IF min.n <= 0 \/ max.n <= 0 THEN "Enter valid minimum and maximum values."
             ELSE IF min.n > max.n THEN "Minimum must be lower than maximum."
             ELSE "send"

\* App.tsx:468-484
RangeVerdict(draft) ==
    IF draft = Undef THEN "return"
    ELSE LET min == Number(draft.min)
             max == Number(draft.max)
         IN  IF ~isFinite(min) \/ ~isFinite(max) THEN "Enter valid minimum and maximum values."
             ELSE IF min.n <= 0 \/ max.n <= 0 THEN "Enter valid minimum and maximum values."
             ELSE IF min.n >= max.n THEN "Minimum must be lower than maximum."
             ELSE "send"

\* App.tsx:503-513
PriceVerdict(draft) ==
    IF draft = Undef THEN "return"
    ELSE LET price == Number(draft.price) IN
         IF ~isFinite(price) THEN "Enter a valid price greater than zero."
         ELSE IF price.n <= 0 THEN "Enter a valid price greater than zero."
         ELSE "send"

\* App.tsx:602-624
DetailsVerdict(draft) ==
    IF draft = Undef THEN "return"
    ELSE IF trim(draft.name) = "" THEN "Name is required."
    ELSE IF trim(draft.symbol) = "" THEN "Symbol is required."
    ELSE IF trim(draft.category_id) = "" THEN "Choose a category before saving."
    ELSE "send"

\* App.tsx:668-675
CreateVerdict(draft) ==
    IF trim(draft.name) = "" \/ trim(draft.symbol) = "" \/ trim(draft.category_id) = ""
    THEN "Name, symbol, and category are required to create a commodity."
    ELSE "send"

\* What the handler's tests of its input lead to: "send" (the operation is
\* called), "return" (the handler returns without a word) or the message of
\* the error feedback it returns with.
Verdict(kind, input) ==
    CASE kind = "handleSaveRange" -> RangeVerdict(input)
      [] kind = "handleSavePrice" -> PriceVerdict(input)
      [] kind = "handleSaveCommodityDetails" -> DetailsVerdict(input)
      [] kind = "handleCreateCommodity" -> CreateVerdict(input)
      [] kind = "handleDeleteCommodity" -> IF input.confirm THEN "send" ELSE "return"
      [] OTHER -> "send"

\* The message of the handler's success.
SuccessMessage(kind) ==
    CASE kind = "handleLogin" -> "Signed in successfully."
      [] kind = "handleSaveRange" -> "Price range updated."
      [] kind = "handleSavePrice" -> "Spot price updated."
      [] kind = "handleRandomizeAll" -> "Triggered price randomisation."
      [] kind = "handleSaveCommodityDetails" -> "Gold updated."
      [] kind = "handleDeleteCommodity" -> "Gold deleted."
      [] kind = "handleCreateCommodity" -> "Gold added."

\* One invocation of a handler: pc is "idle" before it starts, "call" while
\* it awaits its own operation, "hydrate" while it awaits hydrate, "done"
\* after it; run numbers the calls of hydrate in the order they are made (0:
\* the invocation has not called hydrate), left holds the calls of hydrate
\* still awaited and got the data that has arrived.
NoTask == [kind |-> "none", pc |-> "idle", run |-> 0, left |-> {},
           got |-> [op \in DataOps |-> Empty]]
Done(kind, run) == [NoTask EXCEPT !.kind = kind, !.pc = "done", !.run = run]

\* The number of the call of hydrate made next.
NewRun == Cardinality({t \in Tasks : tasks[t].run > 0}) + 1

\* The invocation that starts next.
NewTask == Cardinality({t \in Tasks : tasks[t].pc # "idle"}) + 1

\* A request of invocation t waiting for the server.
Request(t, op) == [task |-> t, op |-> op]

\* The statuses the server answers a handler's request with.
UiStatuses == {200, 401, 403, 500}

\* What request settles with for a 2xx answer to request r.
OkAnswers(r) ==
    CASE r.op = "login" ->
            {Outcome(200, LoginEnvelope.parsed), Outcome(200, UserEnvelope.parsed)}
      [] r.op = "me" -> {Outcome(200, UserEnvelope.parsed)}
      [] OTHER -> {Outcome(200, Obj([data |-> Str(Data(r.task))]))}

\* What request settles with once the network has answered r or failed.
Answers(r) ==
    OkAnswers(r)
    \cup {Outcome(status, ErrorEnvelope.parsed) : status \in UiStatuses \ {200}}
    \cup {Thrown("NetworkError")}

\* api.ts:248-249, 259-265, 277-280: what the wrapper makes of request's
\* outcome.
WrapperOutcome(op, out) ==
    CASE op = "login" ->
            IF out.kind = "ok" /\ Nullish(out.value) THEN Thrown("TypeError") ELSE out
      [] op = "me" -> MeOutcome(out)
      [] op = "logout" -> LogoutOutcome(out)
      [] op \in VoidOps -> VoidOutcome(out)
      [] op = "getRates" -> RatesOutcome(out)
      [] OTHER -> out

\* logout without its finally block (api.ts:281-283): only a 401 or 403
\* drops the token.
ClearsTokenWhenRejected(op, out) ==
    out.kind = "ApiError" /\ Rejects(out.status)

\* api.ts:114-116 and 281-283: the answer makes the client drop its token.
ClearsToken(op, out) ==
    op = "logout" \/ (out.kind = "ApiError" /\ Rejects(out.status))

\* api.ts:248 login stores the token of its result.
StoresToken(op, out) ==
    op = "login" /\ out.kind = "ok" /\ ~Nullish(out.value)

\* The token the client holds after the answer is processed.
TokenAfter(op, out) ==
    IF ClearsToken(op, out) THEN Null
    ELSE IF StoresToken(op, out) THEN Get(out.value, "token")
    ELSE accessToken

\* error instanceof Error ? error.message : ...
ErrorText(out) == IF out.kind = "ApiError" THEN out.message ELSE out.kind

\* App.tsx:698-699
isActionPending(type, id) ==
    ui.pendingAction.type = type /\ (id = NoId \/ ui.pendingAction.id = id)

\* The catch handlers of hydrate rethrowing a 403 of summary and runs as
\* they do a 401 (App.tsx:203, 210).
SwallowedBut403(op, out) ==
    CASE op = "getCommodities" -> out
      [] op \in {"getDashboardSummary", "getPriceUpdateRuns"} ->
            IF out.kind = "ok" \/ IsApiError(out, 401) \/ IsApiError(out, 403)
            THEN out ELSE Resolved(Str(Empty))
      [] OTHER -> IF out.kind = "ok" THEN out ELSE Resolved(Str(Empty))

\* App.tsx:201-223 the catch handlers hydrate puts on its calls.
Swallowed(op, out) ==
    CASE op = "getCommodities" -> out
      [] op \in {"getDashboardSummary", "getPriceUpdateRuns"} ->
            IF out.kind = "ok" \/ IsApiError(out, 401)
            THEN out ELSE Resolved(Str(Empty))
      [] OTHER -> IF out.kind = "ok" THEN out ELSE Resolved(Str(Empty))

\* App.tsx:270-286 hydrate's catch, then its finally
HydrateCatch(u, error) ==
    IF IsApiError(error, 401)
    THEN [u EXCEPT !.feedback = Feedback("error", "Session expired. Please sign in again."),
                   !.user = Null, !.status = "login", !.summary = Empty,
                   !.priceRuns = Empty, !.commodities = Empty,
                   !.drafts = Empty, !.loading = FALSE]
    ELSE [u EXCEPT !.feedback = Feedback("error", ErrorText(error)),
                   !.loading = FALSE]

\* App.tsx:226-269 hydrate's success, then its finally
HydrateDone(u, got) ==
    [u EXCEPT !.commodities = got["getCommodities"],
              !.drafts = got["getCommodities"],
              !.summary = got["getDashboardSummary"],
              !.priceRuns = got["getPriceUpdateRuns"],
              !.loading = FALSE]

\* The handlers without their finally blocks (App.tsx:386-388, 497-499, 531).
FinallyKeepsPending(kind, u) == u

\* What the handler does after await hydrate(): App.tsx:386-388, 497-499,
\* 531; bootstrap does nothing more.
Finally(kind, u) ==
    IF kind = "bootstrap" THEN u ELSE [u EXCEPT !.pendingAction = NoAction]

\* App.tsx:197-224 hydrate up to its await, in invocation t of handler kind:
\* u is the component's state and tok the token at that moment, n the
\* requests in flight.  Without a token getCommodities rejects at once and
\* hydrate's catch runs; the two unauthenticated calls are on their way.
HydrateBegin(t, kind, u, tok, n) ==
    IF Truthy(tok)
    THEN /\ ui' = [u EXCEPT !.loading = TRUE]
         /\ tasks' = [tasks EXCEPT ![t] =
                [NoTask EXCEPT !.kind = kind, !.pc = "hydrate", !.run = NewRun,
                                !.left = HydrateOps]]
         /\ net' = n \cup {Request(t, op) : op \in HydrateOps}
    ELSE /\ ui' = Finally(kind, HydrateCatch(u, NotAuthenticated))
         /\ tasks' = [tasks EXCEPT ![t] = Done(kind, NewRun)]
         /\ net' = n \cup {Request(t, op) : op \in {o \in HydrateOps : ~Authenticated(o)}}

\* App.tsx:200-287 one of hydrate's calls settles with out.
HydrateSettled(t, op, out, n) ==
    LET res == Swallowed(op, out)
        left == tasks[t].left \ {op}
        got == IF op \in DataOps /\ res.kind = "ok"
               THEN [tasks[t].got EXCEPT ![op] = res.value.v]
               ELSE tasks[t].got
    IN  /\ net' = n
        /\ IF res.kind # "ok"
           THEN /\ ui' = Finally(tasks[t].kind, HydrateCatch(ui, res))
                /\ tasks' = [tasks EXCEPT ![t] = Done(tasks[t].kind, tasks[t].run)]
           ELSE IF left = {}
           THEN /\ ui' = Finally(tasks[t].kind, HydrateDone(ui, got))
                /\ tasks' = [tasks EXCEPT ![t] = Done(tasks[t].kind, tasks[t].run)]
           ELSE /\ tasks' = [tasks EXCEPT ![t] = [@ EXCEPT !.left = left, !.got = got]]
                /\ UNCHANGED ui

\* App.tsx:398-403
LoggedOut(u) ==
    [u EXCEPT !.user = Null, !.status = "login", !.commodities = Empty,
              !.drafts = Empty, !.summary = Empty, !.priceRuns = Empty]

\* The handler of invocation t goes on after its own operation settled with
\* out: App.tsx:294-314 bootstrap, 377-388 handleLogin, 393-403
\* handleLogout, and the write handlers (App.tsx:487-499 and alike).
CallSettled(t, out, tok, n) ==
    LET kind == tasks[t].kind IN
    CASE kind = "bootstrap" ->
            IF out.kind = "ok" /\ Truthy(out.value)
            THEN HydrateBegin(t, kind,
                     [ui EXCEPT !.user = out.value, !.status = "ready"], tok, n)
            ELSE /\ ui' = IF out.kind = "ok"
                          THEN [ui EXCEPT !.status = "login"]
                          ELSE [ui EXCEPT !.feedback = Feedback("error", ErrorText(out)),
                                          !.status = "login"]
                 /\ tasks' = [tasks EXCEPT ![t] = Done(kind, 0)]
                 /\ net' = n
      [] kind = "handleLogin" ->
            IF out.kind = "ok"
            THEN HydrateBegin(t, kind,
                     [ui EXCEPT !.user = Get(out.value, "user"), !.status = "ready",
                                !.feedback = Feedback("success", SuccessMessage(kind))],
                     tok, n)
            ELSE /\ ui' = [ui EXCEPT !.feedback = Feedback("error", ErrorText(out)),
                                     !.status = "login", !.pendingAction = NoAction]
                 /\ tasks' = [tasks EXCEPT ![t] = Done(kind, 0)]
                 /\ net' = n
      [] kind = "handleLogout" ->
            /\ ui' = IF out.kind = "ok"
                     THEN LoggedOut(ui)
                     ELSE LoggedOut([ui EXCEPT !.feedback = Feedback("error", ErrorText(out))])
            /\ tasks' = [tasks EXCEPT ![t] = Done(kind, 0)]
            /\ net' = n
      [] OTHER ->
            IF out.kind = "ok"
            THEN HydrateBegin(t, kind,
                     [ui EXCEPT !.feedback = Feedback("success", SuccessMessage(kind))],
                     tok, n)
            ELSE /\ ui' = [ui EXCEPT !.feedback = Feedback("error", ErrorText(out)),
                                     !.pendingAction = NoAction]
                 /\ tasks' = [tasks EXCEPT ![t] = Done(kind, 0)]
                 /\ net' = n

\* The request r is awaited by the handler that made it: a call of a
\* hydrate that has already rejected is not.
Awaited(r) ==
    \/ tasks[r.task].pc = "call"
    \/ tasks[r.task].pc = "hydrate" /\ r.op \in tasks[r.task].left

\* The network settles request r, and request settles with answer: the
\* token is written as request and the wrapper write it (api.ts:114-116,
\* 248, 281-283) and the handler that awaits the call goes on.
Responds(r, answer) ==
    LET out == WrapperOutcome(r.op, answer)
        tok == TokenAfter(r.op, answer)
        n == net \ {r}
    IN  /\ r \in net
        /\ IF ClearsToken(r.op, answer) \/ StoresToken(r.op, answer)
           THEN persistToken(tok)
           ELSE UNCHANGED <<accessToken, storage>>
        /\ UNCHANGED <<calls, started>>
        /\ IF tasks[r.task].pc = "call"
           THEN CallSettled(r.task, out, tok, n)
           ELSE IF Awaited(r)
           THEN HydrateSettled(r.task, r.op, out, n)
           ELSE /\ net' = n
                /\ UNCHANGED <<ui, tasks>>

\* App.tsx:289-322 the effect that runs when the component mounts; me
\* resolves null at once without a token (api.ts:253-255).
Bootstrap ==
    LET t == NewTask IN
    /\ t = 1
    /\ ui.status = "checking"
    /\ UNCHANGED <<accessToken, storage, calls, started>>
    /\ IF Truthy(accessToken)
       THEN /\ tasks' = [tasks EXCEPT ![t] = [NoTask EXCEPT !.kind = "bootstrap", !.pc = "call"]]
            /\ net' = net \cup {Request(t, "me")}
            /\ UNCHANGED ui
       ELSE /\ ui' = [ui EXCEPT !.status = "login"]
            /\ tasks' = [tasks EXCEPT ![t] = Done("bootstrap", 0)]
            /\ UNCHANGED net

\* App.tsx:373-377 the login form is submitted (App.tsx:710-740).
HandleLogin ==
    LET t == NewTask IN
    /\ t \in Tasks
    /\ ui.status = "login"
    /\ ~isActionPending("refresh", NoId)
    /\ UNCHANGED <<accessToken, storage, calls, started>>
    /\ ui' = [ui EXCEPT !.pendingAction = PendingAction("refresh", NoId)]
    /\ tasks' = [tasks EXCEPT ![t] = [NoTask EXCEPT !.kind = "handleLogin", !.pc = "call"]]
    /\ net' = net \cup {Request(t, "login")}

\* App.tsx:391-404 the logout button (App.tsx:799); logout returns at once
\* without a token (api.ts:269-271).
HandleLogout ==
    LET t == NewTask IN
    /\ t \in Tasks
    /\ ui.status = "ready"
    /\ ui.user # Null
    /\ UNCHANGED <<accessToken, storage, calls, started>>
    /\ IF Truthy(accessToken)
       THEN /\ tasks' = [tasks EXCEPT ![t] = [NoTask EXCEPT !.kind = "handleLogout", !.pc = "call"]]
            /\ net' = net \cup {Request(t, "logout")}
            /\ UNCHANGED ui
       ELSE /\ ui' = LoggedOut(ui)
            /\ tasks' = [tasks EXCEPT ![t] = Done("handleLogout", 0)]
            /\ UNCHANGED net

\* App.tsx:528-532 Sync data (App.tsx:787-788)
HandleRefresh ==
    LET t == NewTask IN
    /\ t \in Tasks
    /\ ui.status = "ready"
    /\ ~ui.loading
    /\ ~isActionPending("refresh", NoId)
    /\ UNCHANGED <<accessToken, storage, calls, started>>
    /\ HydrateBegin(t, "handleRefresh",
                    [ui EXCEPT !.pendingAction = PendingAction("refresh", NoId)],
                    accessToken, net)

\* The button or form of the handler is on screen and not disabled
\* (App.tsx:775, 867-868, 961, 985, 1141, 1233, 1241).
Offered(kind, id) ==
    /\ ui.status = "ready"
    /\ CASE kind = "handleRandomizeAll" ->
                /\ ~ui.loading
                /\ ~isActionPending("randomize", NoId)
                /\ ~isActionPending("refresh", NoId)
         [] kind = "handleCreateCommodity" -> ~isActionPending("manage_create", NoId)
         [] kind \in {"handleSaveCommodityDetails", "handleDeleteCommodity"} ->
                /\ ui.commodities # Empty
                /\ ~isActionPending("manage_save", id)
                /\ ~isActionPending("manage_delete", id)
         [] OTHER ->
                /\ ui.commodities # Empty
                /\ ~isActionPending(PendingType(kind), id)

\* A write handler up to its await: App.tsx:467-488, 502-517, 534-537,
\* 601-635, 646-656, 667-686.  An input that fails the handler's tests makes
\* it return, with an error feedback or without; an operation without a
\* token rejects at once and the handler's catch and finally run.
HandleWrite(kind, id, input) ==
    LET t == NewTask
        verdict == Verdict(kind, input)
    IN
    /\ t \in Tasks
    /\ Offered(kind, id)
    /\ UNCHANGED <<accessToken, storage, calls, started>>
    /\ IF verdict = "return"
       THEN UNCHANGED <<ui, tasks, net>>
       ELSE IF verdict # "send"
       THEN /\ ui' = [ui EXCEPT !.feedback = Feedback("error", verdict)]
            /\ UNCHANGED <<tasks, net>>
       ELSE IF ~Truthy(accessToken)
       THEN /\ ui' = [ui EXCEPT !.feedback = Feedback("error", ErrorText(NotAuthenticated)),
                                !.pendingAction = NoAction]
            /\ tasks' = [tasks EXCEPT ![t] = Done(kind, 0)]
            /\ UNCHANGED net
       ELSE /\ ui' = [ui EXCEPT !.pendingAction = PendingAction(PendingType(kind), id)]
            /\ tasks' = [tasks EXCEPT ![t] = [NoTask EXCEPT !.kind = kind, !.pc = "call"]]
            /\ net' = net \cup {Request(t, WriteOp(kind))}

\* App.tsx:324-330 the feedback is taken down after five seconds.
FeedbackExpires ==
    /\ ui.feedback # NoFeedback
    /\ ui' = [ui EXCEPT !.feedback = NoFeedback]
    /\ UNCHANGED <<accessToken, storage, calls, started, tasks, net>>

-----------------------------------------------------------------------------

\* api.ts:12-16 the token is read from storage when the module loads.
Init ==
    /\ storage \in {Null, Str(TokenB)}
    /\ accessToken = storage
    /\ calls = [c \in Slots |-> Idle]
    /\ started = 0
    /\ ui = InitialUi
    /\ tasks = [t \in Tasks |-> NoTask]
    /\ net = {}

Next ==
    \E c \in Slots :
        \/ \E op \in Ops : Start(c, op)
        \/ \E status \in Statuses : FetchResolves(c, status)
        \/ FetchRejects(c)
        \/ \E body \in Bodies : BodyResolves(c, body)
        \/ BodyRejects(c)
        \/ Continue(c)
        \/ Return(c)

Spec == Init /\ [][Next]_vars

\* One caller, every operation, every kind of request body and every shape
\* of response.
NextWire ==
    \/ \E op \in SurfaceOps \cup RequestOps : Start(1, op)
    \/ \E status \in WireStatuses : FetchResolves(1, status)
    \/ FetchRejects(1)
    \/ \E body \in WireBodies : BodyResolves(1, body)
    \/ BodyRejects(1)
    \/ Continue(1)
    \/ Return(1)

SpecWire == Init /\ [][NextWire]_vars

\* The App component: its handlers, the answers of the server, the timer.
NextUI ==
    \/ Bootstrap
    \/ HandleLogin
    \/ HandleLogout
    \/ HandleRefresh
    \/ \E kind \in WriteHandlers : \E id \in IdsOf(kind) :
            \E input \in Inputs(kind) : HandleWrite(kind, id, input)
    \/ \E r \in net : \E answer \in Answers(r) : Responds(r, answer)
    \/ FeedbackExpires

SpecUI == Init /\ [][NextUI]_vars

\* Every request the client has made is answered by the server or fails in
\* the network: fetch settles (api.ts:85-89).
FairUI ==
    SpecUI /\ WF_vars(\E r \in net : \E answer \in Answers(r) : Responds(r, answer))

\* The console once the bootstrap has signed the user in and its hydrate has
\* put the server's data on screen (App.tsx:299-302, 251-269): the state the
\* handlers of the dashboard are invoked in.  The data on screen is named
\* after invocation 0, the bootstrap.
InitReady ==
    /\ storage = Str(TokenB)
    /\ accessToken = storage
    /\ calls = [c \in Slots |-> Idle]
    /\ started = 0
    /\ ui = [InitialUi EXCEPT !.status = "ready", !.user = User,
                              !.commodities = Data(0), !.drafts = Data(0),
                              !.summary = Data(0), !.priceRuns = Data(0)]
    /\ tasks = [t \in Tasks |-> NoTask]
    /\ net = {}

\* The two forms of a commodity's row (App.tsx:931-990).
RowHandlers == {"handleSaveRange", "handleSavePrice"}

\* The forms of the rows are submitted, the server answers, the timer runs.
NextReady ==
    \/ \E kind \in RowHandlers : \E id \in IdsOf(kind) :
            \E input \in Inputs(kind) : HandleWrite(kind, id, input)
    \/ \E r \in net : \E answer \in Answers(r) : Responds(r, answer)
    \/ FeedbackExpires

SpecReady == InitReady /\ [][NextReady]_vars

TypeOK ==
    /\ storage.k \in {"null", "string"}
    /\ started \in 0..MaxCalls
    /\ \A c \in Slots : calls[c].pc \in {"idle", "fetch", "body", "settled", "done"}

-----------------------------------------------------------------------------
(* Steps of a call, as seen in a pair of states.                           *)

\* The caller invokes the operation.
Starts(c) == calls[c].pc = "idle" /\ calls'[c].pc # "idle"

\* request's promise settles after a network call.
Settles(c) == calls[c].pc \in {"fetch", "body"} /\ calls'[c].pc = "settled"

\* The wrapper's continuation runs after await request(...).
Continues(c) == calls[c].pc = "settled" /\ calls'[c].pc = "done"

\* The operation's promise settles: its caller gets the outcome.
Finishes(c) == calls[c].pc # "done" /\ calls'[c].pc = "done"

\* The request that just settled was answered 401 or 403.
Rejected(c) ==
    /\ Settles(c)
    /\ calls'[c].out.kind = "ApiError"
    /\ calls'[c].out.status \in {401, 403}

\* login's continuation runs on a resolved request.
LoginSucceeds(c) ==
    Continues(c) /\ calls[c].op = "login" /\ calls[c].out.kind = "ok"

-----------------------------------------------------------------------------
(* The claims.                                                             *)

\* C1: a call of request with authenticated = true made while no token is
\* held fails with an ApiError of status 401 and never calls fetch, whatever
\* the path, method or body: the call sends nothing when it starts, what a
\* call has sent never changes afterwards, only a call that has sent waits
\* for the network, and the wrapper hands the 401 to its caller.
C1_NoTokenNoNetwork ==
    [][\A c \in Slots :
        /\ (Starts(c) /\ Authenticated(calls'[c].op) /\ ~Truthy(accessToken)) =>
                /\ ~calls'[c].req.sent
                /\ calls'[c].op \notin {"me", "logout"} =>
                        /\ calls'[c].pc = "settled"
                        /\ calls'[c].out = NotAuthenticated
        /\ (calls[c].pc # "idle" /\ calls'[c].pc # "idle") =>
                calls'[c].req = calls[c].req
        /\ calls'[c].pc \in {"fetch", "body"} => calls'[c].req.sent
        /\ (Continues(c) /\ calls[c].op \in {"getCommodities", "createCommodity"}) =>
                calls'[c].out = calls[c].out
      ]_vars

C1_Witness ==
    \E c \in Slots :
        /\ calls[c].op = "createCommodity"
        /\ calls[c].pc = "done"
        /\ calls[c].out = NotAuthenticated
        /\ ~calls[c].req.sent
        /\ ~Truthy(accessToken)

C3_LoginTokenAttached ==
    [][/\ \A c \in Slots :
            (LoginSucceeds(c) /\ Truthy(Get(calls[c].out.value, "token"))) =>
                /\ accessToken' = Get(calls[c].out.value, "token")
                /\ storage' = Str(ToStr(accessToken'))
       /\ \A c \in Slots :
            (Starts(c) /\ calls'[c].pc = "fetch" /\ Authenticated(calls'[c].op)) =>
                /\ Truthy(accessToken)
                /\ calls'[c].req.authorization = "Bearer " \o ToStr(accessToken)
       /\ accessToken' # accessToken =>
            \E c \in Slots :
                \/ LoginSucceeds(c)
                \/ Continues(c) /\ calls[c].op = "logout"
                \/ Rejected(c)
      ]_vars

C3_Witness ==
    /\ calls[1].op = "login" /\ calls[1].pc = "done" /\ calls[1].out.kind = "ok"
    /\ accessToken = Str(TokenA) /\ storage = Str(TokenA)
    /\ calls[2].op = "getCommodities" /\ calls[2].pc = "fetch"
    /\ calls[2].req.authorization = "Bearer " \o TokenA

\* C4: whenever login() returns successfully (the server answered 2xx), a
\* token is held immediately afterwards, for every shape of 2xx payload.
C4_LoginSuccessHoldsToken ==
    [][\A c \in Slots :
        (Continues(c) /\ calls[c].op = "login" /\ calls'[c].out.kind = "ok") =>
            Truthy(accessToken')
      ]_vars

\* C5: the token in memory and in storage changes only in a step that is a
\* successful login, a logout's continuation or the processing of a 401/403
\* response: a request that settles with a 2xx response, with another
\* failing status or with a transport or parse failure leaves both
\* unchanged, and so do the continuations of me, of the resource operations
\* and of a failed login.
C5_TokenFrame ==
    [][/\ (accessToken' # accessToken \/ storage' # storage) =>
            \E c \in Slots :
                \/ LoginSucceeds(c)
                \/ Continues(c) /\ calls[c].op = "logout"
                \/ Rejected(c)
       /\ \A c \in Slots :
            (Settles(c) /\ ~Rejected(c)) => UNCHANGED <<accessToken, storage>>
       /\ \A c \in Slots :
            (Continues(c) /\ calls[c].op # "logout" /\ ~LoginSucceeds(c)) =>
                UNCHANGED <<accessToken, storage>>
      ]_vars

C5_Witness ==
    /\ calls[1].op = "getCommodities" /\ calls[1].pc = "done"
    /\ calls[1].req.authorization = "Bearer " \o TokenB
    /\ IsApiError(calls[1].out, 500)
    /\ calls[2].op = "createCommodity" /\ calls[2].pc = "done"
    /\ calls[2].out = Thrown("NetworkError")
    /\ accessToken = Str(TokenB) /\ storage = Str(TokenB)

\* C6: when logout() finishes, in every outcome (resolved after a 2xx or a
\* swallowed 401, rejected after a 403, a 5xx or a transport failure, or
\* returned at once because no token was held), no token is held in memory
\* and storage holds none.
C6_LogoutAlwaysClears ==
    [][\A c \in Slots :
        (Finishes(c) /\ calls'[c].op = "logout") =>
            ~Truthy(accessToken') /\ storage' = Null
      ]_vars

C6_Witness ==
    \E c \in Slots :
        /\ calls[c].op = "logout" /\ calls[c].pc = "done"
        /\ calls[c].req.authorization = "Bearer " \o TokenB
        /\ IsApiError(calls[c].out, 500)
        /\ accessToken = Null /\ storage = Null

\* C7: when the server answers POST /auth/logout with 401, logout()
\* resolves normally and the token is cleared; a failure of any other kind,
\* a 403 included, reaches the caller as it was thrown.
C7_Logout401Swallowed ==
    [][\A c \in Slots :
        (Continues(c) /\ calls[c].op = "logout") =>
            /\ IsApiError(calls[c].out, 401) =>
                    /\ calls'[c].out = Resolved(Undef)
                    /\ accessToken' = Null /\ storage' = Null
            /\ (calls[c].out.kind # "ok" /\ ~IsApiError(calls[c].out, 401)) =>
                    calls'[c].out = calls[c].out
      ]_vars

C7_Witness ==
    /\ calls[1].op = "logout" /\ calls[1].pc = "done"
    /\ calls[1].req.sent /\ calls[1].status = 401
    /\ calls[1].out = Resolved(Undef)
    /\ calls[2].op = "logout" /\ calls[2].pc = "done"
    /\ IsApiError(calls[2].out, 403)
    /\ accessToken = Null /\ storage = Null

\* C8: me() resolves with the user of a 2xx response that carries one,
\* resolves with null when GET /auth/me is answered 401, and rejects with
\* every other failure as thrown; a 403 clears the token when the request
\* settles, a 5xx or a transport failure leaves it in place, and me's own
\* continuation never touches it.
C8_MeOutcomes ==
    [][\A c \in Slots :
        /\ (Continues(c) /\ calls[c].op = "me") =>
            /\ (calls[c].out.kind = "ok" /\ HasField(calls[c].out.value, "user")) =>
                    calls'[c].out = Resolved(calls[c].out.value.f["user"])
            /\ IsApiError(calls[c].out, 401) => calls'[c].out = Resolved(Null)
            /\ (calls[c].out.kind # "ok" /\ ~IsApiError(calls[c].out, 401)) =>
                    calls'[c].out = calls[c].out
            /\ UNCHANGED <<accessToken, storage>>
        /\ (Settles(c) /\ calls[c].op = "me") =>
            /\ IsApiError(calls'[c].out, 403) =>
                    accessToken' = Null /\ storage' = Null
            /\ (IsApiError(calls'[c].out, 500)
                    \/ calls'[c].out.kind \in {"NetworkError", "SyntaxError"}) =>
                    UNCHANGED <<accessToken, storage>>
      ]_vars

C8_Witness ==
    /\ calls[1].op = "me" /\ calls[1].pc = "done"
    /\ calls[1].req.sent /\ IsApiError(calls[1].out, 403)
    /\ accessToken = Null
    /\ calls[2].op = "me" /\ calls[2].pc = "done"
    /\ calls[2].req.sent /\ calls[2].status = 401
    /\ calls[2].out = Resolved(Null)

\* C9: me() called while no token is held sends nothing, and a me() that has
\* sent nothing resolves with null.
C9_MeWithoutToken ==
    [][\A c \in Slots :
        /\ (Starts(c) /\ calls'[c].op = "me" /\ ~Truthy(accessToken)) =>
                ~calls'[c].req.sent /\ calls'[c].pc \in {"settled", "done"}
        /\ (Finishes(c) /\ calls'[c].op = "me" /\ ~calls'[c].req.sent) =>
                calls'[c].out = Resolved(Null)
      ]_vars

C9_Witness ==
    \E c \in Slots :
        /\ calls[c].op = "me" /\ calls[c].pc = "done"
        /\ ~calls[c].req.sent
        /\ calls[c].out = Resolved(Null)
        /\ ~Truthy(accessToken)

\* C10: a login answered 2xx with { data: { token: T, user: U } } settles
\* with { token: T, user: U }, returns that value and leaves exactly T held;
\* a me() started while T is held calls fetch once with GET /auth/me and
\* Authorization: Bearer T, and on a 2xx answer { data: { user: U } }
\* resolves with U.
C10_LoginThenMe ==
    [][\A c \in Slots :
        /\ (Settles(c) /\ calls[c].op = "login" /\ Ok(calls'[c].status)
                /\ calls'[c].payload = LoginEnvelope.parsed) =>
                calls'[c].out =
                    Resolved(Obj([token |-> Str(TokenA), user |-> User]))
        /\ (LoginSucceeds(c)
                /\ calls[c].out.value = Obj([token |-> Str(TokenA), user |-> User])) =>
                /\ calls'[c].out = calls[c].out
                /\ accessToken' = Str(TokenA)
        /\ (Starts(c) /\ calls'[c].op = "me" /\ accessToken = Str(TokenA)) =>
                /\ calls'[c].pc = "fetch"
                /\ calls'[c].req =
                        [sent |-> TRUE, method |-> "GET", path |-> "/auth/me",
                         accept |-> "application/json", contentType |-> "none",
                         body |-> NoBody,
                         authorization |-> "Bearer " \o TokenA]
        /\ (calls[c].op = "me" /\ calls[c].pc # "idle" /\ calls'[c].pc # "idle") =>
                calls'[c].req = calls[c].req
        /\ (Continues(c) /\ calls[c].op = "me" /\ Ok(calls[c].status)
                /\ calls[c].payload = UserEnvelope.parsed) =>
                calls'[c].out = Resolved(User)
      ]_vars

C10_Witness ==
    /\ calls[1].op = "login" /\ calls[1].pc = "done"
    /\ calls[1].payload = LoginEnvelope.parsed
    /\ calls[1].out = Resolved(Obj([token |-> Str(TokenA), user |-> User]))
    /\ accessToken = Str(TokenA)
    /\ calls[2].op = "me" /\ calls[2].pc = "done"
    /\ calls[2].req.authorization = "Bearer " \o TokenA
    /\ calls[2].status = 200
    /\ calls[2].out = Resolved(User)

\* C11: in every reachable state the token in memory agrees with storage:
\* a token is held in memory exactly when the same string is stored under
\* the storage key, and storage holds no entry when no token is held.
C11_TokenMatchesStorage ==
    /\ Truthy(accessToken) => accessToken.k = "string" /\ storage = accessToken
    /\ ~Truthy(accessToken) => storage = Null

C11_Witness ==
    /\ \E c \in Slots :
            calls[c].op = "login" /\ calls[c].pc = "done" /\ calls[c].out.kind = "ok"
    /\ accessToken = Str(TokenA) /\ storage = Str(TokenA)
    /\ started = MaxCalls

\* C12: every call of fetch carries Accept: application/json, and carries
\* Authorization: Bearer <token> exactly when authenticated is true (a token
\* is then held, by the precondition); a request with authenticated = false
\* sends no Authorization header even while a token is held.
C12_HeadersSent ==
    [][\A c \in Slots :
        (Starts(c) /\ calls'[c].req.sent) =>
            /\ calls'[c].req.accept = "application/json"
            /\ (Authenticated(calls'[c].op) /\ Truthy(accessToken)) =>
                    calls'[c].req.authorization = "Bearer " \o accessToken.v
            /\ ~(Authenticated(calls'[c].op) /\ Truthy(accessToken)) =>
                    calls'[c].req.authorization = "none"
      ]_vars

C12_Witness ==
    \E c \in Slots :
        /\ calls[c].op = "getCategories" /\ calls[c].pc = "fetch"
        /\ calls[c].req.accept = "application/json"
        /\ calls[c].req.authorization = "none"
        /\ accessToken = Str(TokenB)

\* C13: an invocation of request is one-shot: it calls fetch exactly once
\* when the no-token precondition passes and never otherwise, it never calls
\* fetch again whatever the answer, and every failure (a failing status, a
\* rejected fetch, an unreadable body) settles the request with that failure,
\* which a wrapper that adds no handling hands to its caller.
C13_OneShot ==
    [][\A c \in Slots :
        /\ calls'[c].fetches <= 1
        /\ calls'[c].req.sent <=> calls'[c].fetches = 1
        /\ (Starts(c) /\ ~(Authenticated(calls'[c].op) /\ ~Truthy(accessToken))) =>
                calls'[c].fetches = 1 /\ calls'[c].pc = "fetch"
        /\ (calls[c].pc # "idle" /\ calls'[c].pc # "idle") =>
                calls'[c].fetches = calls[c].fetches
        /\ (calls[c].pc = "fetch" /\ calls'[c] # calls[c]) =>
                calls'[c].pc \in {"body", "settled"}
        /\ (calls[c].pc = "body" /\ calls'[c] # calls[c]) =>
                calls'[c].pc = "settled"
        /\ (calls[c].pc = "settled" /\ calls'[c] # calls[c]) =>
                calls'[c].pc = "done"
        /\ (Settles(c) /\ calls[c].pc = "body" /\ ~Ok(calls[c].status)) =>
                calls'[c].out.kind \in {"ApiError", "SyntaxError"}
        /\ (Settles(c) /\ calls'[c].status = 0) =>
                calls'[c].out = Thrown("NetworkError")
        /\ (Continues(c) /\ calls[c].op \notin {"login", "me", "logout"}) =>
                calls'[c].out = calls[c].out
      ]_vars

C13_Witness ==
    /\ calls[1].op = "getCommodities" /\ calls[1].pc = "done"
    /\ calls[1].fetches = 1 /\ calls[1].out = Thrown("NetworkError")
    /\ calls[2].op = "createCommodity" /\ calls[2].pc = "done"
    /\ calls[2].fetches = 1 /\ IsApiError(calls[2].out, 500)

\* The payload carries error.message as a string inside an object.
HasErrorMessage(payload) ==
    /\ HasField(payload, "error")
    /\ HasField(payload.f["error"], "message")
    /\ payload.f["error"].f["message"].k = "string"

\* The payload carries message as a string.
HasTopMessage(payload) ==
    HasField(payload, "message") /\ payload.f["message"].k = "string"

\* C14: the message of the ApiError of a failing response is
\* payload.error.message when the payload is an object whose error is an
\* object with a string message, otherwise payload.message when that is a
\* string, otherwise exactly "Request failed with status <code>" (plain
\* text, null, arrays, non-string message fields).
C14_MessagePrecedence ==
    \A c \in Slots :
        (calls[c].out.kind = "ApiError" /\ calls[c].req.sent) =>
            LET payload == calls[c].payload
                message == calls[c].out.message
                generic == "Request failed with status " \o ToString(calls[c].status)
            IN  /\ HasErrorMessage(payload) =>
                        message = payload.f["error"].f["message"].v
                /\ (~HasErrorMessage(payload) /\ HasTopMessage(payload)) =>
                        message = payload.f["message"].v
                /\ (~HasErrorMessage(payload) /\ ~HasTopMessage(payload)) =>
                        message = generic
                /\ payload = ErrorEnvelope.parsed => message = "bad input"
                /\ payload = BothMessages.parsed => message = "inner"
                /\ payload = ErrorCode.parsed => message = "outer"
                /\ payload \in {Str(PlainText.raw), Null, NoMessage.parsed,
                                NumberMessage.parsed, EmptyArray.parsed} =>
                        message = generic

C14_Witness ==
    /\ calls[1].pc = "settled" /\ calls[1].status = 400
    /\ calls[1].payload = BothMessages.parsed
    /\ calls[1].out.kind = "ApiError" /\ calls[1].out.message = "inner"

C16_DataUnwrapped ==
    \A c \in Slots :
        (calls[c].pc = "settled" /\ calls[c].req.sent /\ Ok(calls[c].status)
            /\ calls[c].out.kind # "SyntaxError") =>
            LET payload == calls[c].payload IN
            /\ calls[c].out.kind = "ok"
            /\ HasField(payload, "data") => calls[c].out.value = payload.f["data"]
            /\ ~HasField(payload, "data") => calls[c].out.value = payload
            /\ payload = DataNull.parsed => calls[c].out.value = Null
            /\ payload = LoginEnvelope.parsed =>
                    calls[c].out.value = Obj([token |-> Str(TokenA), user |-> User])
            /\ payload \in {TopMessage.parsed, EmptyArray.parsed,
                            Str(PlainText.raw), Null} =>
                    calls[c].out.value = payload

C16_Witness ==
    /\ calls[1].pc = "settled" /\ calls[1].status = 200
    /\ calls[1].payload = DataNull.parsed
    /\ calls[1].out = Resolved(Null)

\* The operations that hand request's result to their caller as it is.
PassOps == (Ops \cup SurfaceOps \cup RequestOps) \ ({"login", "me", "logout", "getRates"} \cup VoidOps)

\* C17: a response with status 204 gives request's caller no payload (null)
\* and its body is never read, whichever body and content-type the response
\* carries.
C17_NoContent ==
    \A c \in Slots :
        calls[c].status = 204 =>
            /\ calls[c].pc \in {"settled", "done"}
            /\ ~calls[c].bodyRead
            /\ calls[c].payload = Null
            /\ (calls[c].pc = "settled" \/ calls[c].op \in PassOps) =>
                    calls[c].out = Resolved(Null)

C17_Witness ==
    /\ calls[1].op = "getCommodities" /\ calls[1].pc = "done"
    /\ calls[1].status = 204 /\ ~calls[1].bodyRead
    /\ calls[1].out = Resolved(Null)

\* C18: a FormData body is handed to fetch as it is with no Content-Type
\* header; a string body is sent verbatim with Content-Type
\* application/json; any other non-null value is sent as its
\* JSON.stringify text with Content-Type application/json; an undefined or
\* null body sends no body and no Content-Type.
C18_BodyHandling ==
    \A c \in Slots :
        calls[c].req.sent =>
            LET body == BodyValue(calls[c].op)
                req == calls[c].req
            IN  /\ body.k = "FormData" =>
                        req.body = Passed(body) /\ req.contentType = "none"
                /\ body.k = "string" =>
                        /\ req.body = Verbatim(body.v)
                        /\ req.contentType = "application/json"
                /\ body.k = "object" =>
                        /\ req.body = Serialized(body)
                        /\ req.contentType = "application/json"
                /\ body.k \in {"undefined", "null"} =>
                        req.body = NoBody /\ req.contentType = "none"

C18_Witness ==
    /\ calls[1].op = "requestText" /\ calls[1].pc = "fetch"
    /\ calls[1].req.body = Verbatim("{name:Gold}")
    /\ calls[1].req.contentType = "application/json"

\* A call waits for the network.
InFlight(c) == calls[c].pc \in {"fetch", "body"}

\* C19: concurrent requests share only the token.  A request reads it when
\* it is issued, so its Authorization header carries the token held at that
\* moment; no step of another call, a clearing or a replacement of the token
\* included, changes what the request sent or any other field of its record;
\* whatever the token has become, the response of a request in flight can be
\* delivered, in any order with the other requests in flight, and settles
\* that request with its own status and payload.
C19_IndependentRequests ==
    /\ [](\A c \in Slots :
            /\ calls[c].pc = "fetch" =>
                    /\ \A status \in Statuses : ENABLED FetchResolves(c, status)
                    /\ ENABLED FetchRejects(c)
            /\ calls[c].pc = "body" =>
                    \A body \in Bodies : ENABLED BodyResolves(c, body))
    /\ [][/\ \A c \in Slots :
               (Starts(c) /\ calls'[c].req.sent /\ Authenticated(calls'[c].op)) =>
                   calls'[c].req.authorization = "Bearer " \o accessToken.v
          /\ \A c \in Slots :
               (InFlight(c) /\ calls'[c].pc # "idle") =>
                   calls'[c].req = calls[c].req
          /\ \A c, d \in Slots :
               (c # d /\ calls'[c] # calls[c]) => calls'[d] = calls[d]
          /\ \A c \in Slots :
               (Settles(c) /\ calls'[c].bodyRead
                   /\ calls'[c].out.kind # "SyntaxError") =>
                   /\ calls'[c].out.kind = "ok" <=> Ok(calls'[c].status)
                   /\ calls'[c].out.kind # "ok" =>
                           /\ calls'[c].out.kind = "ApiError"
                           /\ calls'[c].out.status = calls'[c].status
                           /\ calls'[c].out.details = calls'[c].payload
        ]_vars

C19_Witness ==
    /\ calls[1].op = "getCommodities" /\ calls[1].pc = "settled"
    /\ calls[1].req.authorization = "Bearer " \o TokenB
    /\ calls[1].status = 200 /\ calls[1].out.kind = "ok"
    /\ calls[2].op = "createCommodity" /\ calls[2].pc = "done"
    /\ calls[2].req.authorization = "Bearer " \o TokenB
    /\ IsApiError(calls[2].out, 401)
    /\ accessToken = Null

-----------------------------------------------------------------------------
(* The App component's handlers.                                           *)

\* The operations of the handlers that write and of hydrate.
UiOps == HydrateOps \cup {WriteOp(kind) : kind \in WriteHandlers}

\* The server answers request r with status 401 or 403 while a token is
\* held, and the handler that made the call still awaits it.
RejectedByServer(r) ==
    /\ Awaited(r)
    /\ Truthy(accessToken)
    /\ \E status \in {401, 403} : Responds(r, Outcome(status, ErrorEnvelope.parsed))

\* C20: whenever a call started by the UI (by hydrate or by one of the
\* handlers that write) fails with a 401 or 403 of the server that cleared
\* the token, the UI drops its session: user becomes null and status becomes
\* 'login'.
C20_RejectionDropsSession ==
    [][\A r \in net :
          (r.op \in UiOps /\ RejectedByServer(r))
          => (ui'.user = Null /\ ui'.status = "login")]_vars

-----------------------------------------------------------------------------
(* The derived operations.                                                 *)

\* The HTTP surface: method, path and authentication flag of an operation.
Surface(method, path, auth) == [method |-> method, path |-> path, auth |-> auth]

SurfaceOf(op) ==
    CASE op = "login" -> Surface("POST", "/auth/login", FALSE)
      [] op = "me" -> Surface("GET", "/auth/me", TRUE)
      [] op = "logout" -> Surface("POST", "/auth/logout", TRUE)
      [] op = "getCommodities" -> Surface("GET", "/admin/commodities", TRUE)
      [] op = "createCommodity" -> Surface("POST", "/admin/commodities", TRUE)
      [] op = "updateCommodity" -> Surface("PUT", "/admin/commodities/c1", TRUE)
      [] op = "deleteCommodity" -> Surface("DELETE", "/admin/commodities/c1", TRUE)
      [] op = "updatePriceRange" ->
            Surface("PUT", "/admin/commodities/c1/price-range", TRUE)
      [] op = "updateCommodityPrice" ->
            Surface("PUT", "/admin/commodities/c1/price", TRUE)
      [] op = "triggerPriceUpdate" -> Surface("POST", "/admin/prices/update-all", TRUE)
      [] op = "getDashboardSummary" -> Surface("GET", "/admin/dashboard/summary", TRUE)
      [] op = "getPriceUpdateRuns" ->
            Surface("GET", "/admin/price-update-runs?limit=10", TRUE)
      [] op = "getCategories" -> Surface("GET", "/commodities/categories", FALSE)
      [] op = "getCurrentPrices" ->
            Surface("GET", "/prices/current?currency=both", FALSE)
      [] op \in {"getRates", "getRatesNoSymbols"} ->
            Surface("GET", "/currency/rates?base=USD&symbols=ZAR", FALSE)

\* The call just started reached the network with the operation's method
\* and path and without an Authorization header.
SentUnauthenticated(call) ==
    /\ call.req.sent
    /\ call.fetches = 1
    /\ call.pc = "fetch"
    /\ call.req.method = SurfaceOf(call.op).method
    /\ call.req.path = SurfaceOf(call.op).path
    /\ call.req.authorization = "none"

\* The call just started reached the network with the operation's method
\* and path and the token held.
SentAuthenticated(call) ==
    /\ call.req.sent
    /\ call.fetches = 1
    /\ call.pc = "fetch"
    /\ call.req.method = SurfaceOf(call.op).method
    /\ call.req.path = SurfaceOf(call.op).path
    /\ call.req.authorization = "Bearer " \o ToStr(accessToken)

\* The call just started failed with status 401 before the network.
FailedUnsent(call) ==
    /\ ~call.req.sent
    /\ call.fetches = 0
    /\ call.out = NotAuthenticated

\* What an authenticated operation does when it starts.
StartsAuthenticated(call) ==
    IF Truthy(accessToken) THEN SentAuthenticated(call)
    ELSE call.op \in AdminOps => FailedUnsent(call)

\* No call makes a second request, and a 401 before the network is what the
\* caller of an adminApi operation gets.
OneRequest ==
    /\ [](\A c \in Slots : calls[c].fetches <= 1)
    /\ [][\A c \in Slots :
            /\ (calls[c].pc # "idle" /\ calls'[c].pc # "idle")
                  => calls'[c].req = calls[c].req
            /\ (Continues(c) /\ calls[c].op \in AdminOps /\ ~calls[c].req.sent)
                  => calls'[c].out = NotAuthenticated]_vars

-----------------------------------------------------------------------------
(* Transport failures.                                                     *)

\* What fetch and response.json() throw.
TransportErrors == {"NetworkError", "SyntaxError"}

\* request settles without a response read: fetch rejected (no status was
\* received), or the body failed to parse.
TransportFails(c) ==
    /\ Settles(c)
    /\ \/ calls[c].pc = "fetch" /\ calls'[c].status = 0
       \/ calls'[c].out.kind = "SyntaxError"

\* C22: a transport failure (fetch rejects, or reading the body throws)
\* reaches the caller of request as the exception it is, not as an ApiError,
\* and leaves the token alone; me rethrows it, logout rethrows it after
\* clearing the token, and every other wrapper hands it on.
C22_TransportFailurePropagates ==
    [][\A c \in Slots :
          /\ TransportFails(c)
                => /\ calls'[c].out.kind \in TransportErrors
                   /\ UNCHANGED <<accessToken, storage>>
          /\ (Continues(c) /\ calls[c].out.kind \in TransportErrors)
                => /\ calls'[c].out = calls[c].out
                   /\ IF calls[c].op = "logout"
                      THEN accessToken' = Null /\ storage' = Null
                      ELSE UNCHANGED <<accessToken, storage>>]_vars

\* logout has rethrown a network failure with the token cleared while me
\* has rethrown a failure of its own.
C22_Witness ==
    \E c, d \in Slots :
        /\ calls[c].op = "logout" /\ calls[c].pc = "done"
        /\ calls[c].out.kind = "NetworkError"
        /\ calls[d].op = "me" /\ calls[d].pc = "done"
        /\ calls[d].out.kind \in TransportErrors
        /\ accessToken = Null /\ storage = Null

-----------------------------------------------------------------------------
(* Overlapping login and rejected requests.                                *)

\* C23: a 401 or 403 response clears whatever token is held when the
\* response is processed, not the token the request was sent with (sent
\* with another token, or without one, the client still ends with no token
\* in memory and in storage); and a login whose response is processed after
\* a rejection stores its token, so the client ends authenticated: each of
\* the two steps decides the session by itself, the later one wins.
C23_LastResponseDecides ==
    [][\A c \in Slots :
          /\ Rejected(c) => (accessToken' = Null /\ storage' = Null)
          /\ (LoginSucceeds(c) /\ Get(calls[c].out.value, "token").k = "string"
                /\ Truthy(Get(calls[c].out.value, "token")))
                => /\ accessToken' = Get(calls[c].out.value, "token")
                   /\ storage' = Get(calls[c].out.value, "token")]_vars

\* A request sent with the token of the old session was answered 401 or 403
\* after a login had stored a new token: the client holds no token.
C23_Witness ==
    \E c, d \in Slots :
        /\ calls[c].op # "login" /\ calls[c].pc = "settled"
        /\ calls[c].req.authorization = "Bearer " \o TokenB
        /\ calls[c].out.kind = "ApiError" /\ calls[c].out.status \in {401, 403}
        /\ calls[d].op = "login" /\ calls[d].pc = "done"
        /\ calls[d].out.kind = "ok"
        /\ Get(calls[d].out.value, "token") = Str(TokenA)
        /\ accessToken = Null /\ storage = Null

-----------------------------------------------------------------------------
(* Overlapping handlers of the App component.                              *)

\* commodities, drafts, summary and priceRuns are empty.
Cleared(u) ==
    /\ u.commodities = Empty
    /\ u.drafts = Empty
    /\ u.summary = Empty
    /\ u.priceRuns = Empty

\* Invocation t has not finished.
Active(t) == tasks[t].pc \in {"call", "hydrate"}

\* C24: after handleLogout has finished, commodities, drafts, summary and
\* priceRuns stay empty while status is 'login' and no login has been
\* submitted since, even when a hydrate started before the logout completes
\* afterwards.
C24_LogoutKeepsDataCleared ==
    \A t \in Tasks :
        (/\ tasks[t].kind = "handleLogout"
         /\ tasks[t].pc = "done"
         /\ ui.status = "login"
         /\ \A later \in Tasks : later > t => tasks[later].kind # "handleLogin")
        => Cleared(ui)

\* C25: when calls of hydrate overlap, one that was made earlier and
\* completes later never overwrites what a later one has put on screen.
C25_LatestHydrateWins ==
    [][\A t, later \in Tasks :
          (/\ tasks[t].pc = "hydrate"
           /\ tasks[t].run < tasks[later].run
           /\ ui.commodities = Data(later))
          => /\ ui'.commodities # Data(t)
             /\ ui'.drafts # Data(t)
             /\ ui'.summary # Data(t)
             /\ ui'.priceRuns # Data(t)]_vars

\* C26: while a handler that has called setPendingAction is not finished,
\* pendingAction names its action, whatever other handlers start or finish.
C26_PendingActionHeld ==
    \A t \in Tasks :
        (Active(t) /\ tasks[t].kind \in WriteHandlers)
        => ui.pendingAction.type = PendingType(tasks[t].kind)

-----------------------------------------------------------------------------
(* The tests handleSaveRange and handleSavePrice make on the drafts.       *)

\* Both values of the draft are finite numbers greater than zero, and min is
\* less than max.
ValidRange(draft) ==
    /\ draft # Undef
    /\ isFinite(Number(draft.min)) /\ isFinite(Number(draft.max))
    /\ Number(draft.min).n > 0 /\ Number(draft.max).n > 0
    /\ Number(draft.min).n < Number(draft.max).n

\* The price of the draft is a finite number greater than zero.
ValidPrice(draft) ==
    /\ draft # Undef
    /\ isFinite(Number(draft.price))
    /\ Number(draft.price).n > 0

\* The handler has returned without a network call and without setting
\* pendingAction; a draft that is there got an error feedback.
Refused(draft) ==
    /\ net' = net
    /\ tasks' = tasks
    /\ ui'.pendingAction = ui.pendingAction
    /\ draft # Undef => (ui'.feedback.type = "error" /\ ui'.feedback # ui.feedback)

\* The handler has set pendingAction and its operation is on its way as PUT
\* path.
Sent(op, type, id, path) ==
    /\ net' = net \cup {Request(NewTask, op)}
    /\ Request(NewTask, op) \notin net
    /\ Method(op) = "PUT"
    /\ Path(op) = path
    /\ ui'.pendingAction = PendingAction(type, id)

\* C27: handleSaveRange sends PUT /admin/commodities/{id}/price-range only
\* for a draft whose two values are finite numbers greater than zero with
\* min less than max, and handleSavePrice sends PUT
\* /admin/commodities/{id}/price only for a draft whose price is a finite
\* number greater than zero (and with a token held they do send it); in
\* every other case, a missing draft too, no network call is made and
\* pendingAction is not set, and an invalid value gets an error feedback.
C27_OnlyValidDraftsAreSent ==
    [][\A id \in Ids :
          /\ \A draft \in Inputs("handleSaveRange") :
                HandleWrite("handleSaveRange", id, draft)
                => IF ValidRange(draft)
                   THEN Truthy(accessToken)
                            => Sent("updatePriceRange", "range", id,
                                    "/admin/commodities/" \o id \o "/price-range")
                   ELSE Refused(draft)
          /\ \A draft \in Inputs("handleSavePrice") :
                HandleWrite("handleSavePrice", id, draft)
                => IF ValidPrice(draft)
                   THEN Truthy(accessToken)
                            => Sent("updateCommodityPrice", "price", id,
                                    "/admin/commodities/" \o id \o "/price")
                   ELSE Refused(draft)]_vars

\* handleSaveRange has sent its request and named itself in pendingAction.
C27_Witness ==
    \E t \in Tasks :
        /\ tasks[t].kind = "handleSaveRange"
        /\ tasks[t].pc = "call"
        /\ Request(t, "updatePriceRange") \in net
        /\ ui.pendingAction = PendingAction("range", "c1")

-----------------------------------------------------------------------------
(* hydrate and the failures of its five calls.                             *)

\* The failure out of hydrate's call op aborts the refresh.
Aborts(op, out) ==
    \/ op = "getCommodities" /\ out.kind # "ok"
    \/ op \in {"getDashboardSummary", "getPriceUpdateRuns"} /\ IsApiError(out, 401)

\* The data of the four collections on screen is what it was.
DataKept ==
    /\ ui'.commodities = ui.commodities
    /\ ui'.drafts = ui.drafts
    /\ ui'.summary = ui.summary
    /\ ui'.priceRuns = ui.priceRuns

\* hydrate of invocation t has ended in its catch for error.
Aborted(t, error) ==
    /\ tasks'[t].pc = "done"
    /\ ~ui'.loading
    /\ ui'.commodities # Data(t)
    /\ ui'.feedback.type = "error"
    /\ IF IsApiError(error, 401)
       THEN ui'.status = "login" /\ ui'.user = Null /\ Cleared(ui')
       ELSE /\ ui'.status = ui.status
            /\ ui'.user = ui.user
            /\ DataKept
            /\ ui'.feedback = Feedback("error", ErrorText(error))

\* hydrate of invocation t goes on after its call op: it waits for the calls
\* that are left, or with none left it puts the data it got on screen.
GoesOn(t, op) ==
    /\ ui'.status = ui.status
    /\ ui'.user = ui.user
    /\ IF tasks[t].left = {op}
       THEN /\ tasks'[t].pc = "done"
            /\ ~ui'.loading
            /\ ui'.commodities = Data(t)
            /\ ui'.drafts = Data(t)
            /\ ui'.feedback = ui.feedback
       ELSE /\ tasks'[t].pc = "hydrate"
            /\ tasks'[t].left = tasks[t].left \ {op}
            /\ ui' = ui

\* C28: a failure of getCommodities of any kind, or a 401 from
\* getDashboardSummary or getPriceUpdateRuns, ends hydrate without new
\* commodities on screen: a 401 resets the UI to 'login' with the data
\* cleared, any other error only shows feedback.  A failure other than 401 of
\* summary or runs, and any failure of getCurrentPrices or getRates, a 401 or
\* 403 that clears the token too, is swallowed: hydrate goes on, leaves the
\* status as it is and completes with the new commodities.
C28_HydratePartialFailure ==
    [][\A r \in net : \A answer \in Answers(r) :
          (/\ r.op \in HydrateOps
           /\ tasks[r.task].pc = "hydrate"
           /\ r.op \in tasks[r.task].left
           /\ Responds(r, answer))
          => LET out == WrapperOutcome(r.op, answer) IN
             IF Aborts(r.op, out)
             THEN Aborted(r.task, out)
             ELSE GoesOn(r.task, r.op)]_vars

\* A refresh has completed with the new data on screen and the status
\* 'ready' although a 401 or 403 of one of its calls has cleared the token.
C28_Witness ==
    \E t \in Tasks :
        /\ tasks[t].pc = "done"
        /\ tasks[t].run > 0
        /\ ui.commodities = Data(t)
        /\ ui.status = "ready"
        /\ ~ui.loading
        /\ ~Truthy(accessToken)
        /\ \A u \in Tasks : ~Active(u)

-----------------------------------------------------------------------------
(* The busy indicators.                                                    *)

\* No invocation of a handler is waiting for the server.
NoActionInFlight == \A t \in Tasks : ~Active(t)

\* Neither indicator is on.
Released == ui.pendingAction = NoAction /\ ~ui.loading

\* C29: with no action in flight pendingAction.type is null and loading is
\* false, and once the requests settle every action gets there: indicators
\* that are on are eventually released.
C29_BusyIndicatorsReleased ==
    /\ [](NoActionInFlight => Released)
    /\ ~Released ~> Released

\* A handler that had put pendingAction on has ended after a hydrate that
\* failed, and both indicators are off.
C29_Witness ==
    /\ NoActionInFlight
    /\ Released
    /\ \E t \in Tasks :
          /\ tasks[t].pc = "done"
          /\ tasks[t].kind \in WriteHandlers \cup {"handleRefresh", "handleLogin"}
          /\ tasks[t].run > 0
    /\ ui.feedback.type = "error"

-----------------------------------------------------------------------------
(* handleLogout.                                                           *)

\* Invocation t of handleLogout finishes in this step.
LogoutFinishes(t) ==
    /\ tasks[t].pc # "done"
    /\ tasks'[t].pc = "done"
    /\ tasks'[t].kind = "handleLogout"

\* C30: when handleLogout finishes, whether authApi.logout has resolved or
\* rejected, user is null, status is 'login', commodities, drafts, summary
\* and priceRuns are cleared and the client holds no token; the rejection
\* of logout is only shown as feedback.
C30_LogoutEndsSession ==
    [][/\ \A t \in Tasks :
            LogoutFinishes(t)
            => /\ ui'.user = Null
               /\ ui'.status = "login"
               /\ Cleared(ui')
               /\ ~Truthy(accessToken')
               /\ storage' = Null
       /\ \A r \in net : \A answer \in Answers(r) :
            (r.op = "logout" /\ Responds(r, answer))
            => /\ LogoutFinishes(r.task)
               /\ ui'.feedback =
                     IF WrapperOutcome("logout", answer).kind = "ok"
                     THEN ui.feedback
                     ELSE Feedback("error", ErrorText(WrapperOutcome("logout", answer)))
      ]_vars

\* handleLogout has finished after logout failed in the network: the error
\* is on screen and the session is over.
C30_Witness ==
    /\ \E t \in Tasks : tasks[t].pc = "done" /\ tasks[t].kind = "handleLogout"
    /\ ui.feedback = Feedback("error", "NetworkError")
    /\ ui.user = Null
    /\ ui.status = "login"
    /\ Cleared(ui)
    /\ ~Truthy(accessToken)

====
